---------------------------- MODULE Spec2Model ----------------------------
(***************************************************************************)
(* nbnak: export of a device's Netbox context (hostname, VLANs, ports) as  *)
(* one YAML document.  The model follows src/src/nbnak.py: the Port        *)
(* normalizer (Port.load_from_netbox, Port.__load_mode_and_vlans,          *)
(* Port.to_dict), device resolution (__try_get_device, _get_device_id)     *)
(* and main().  The inventory is an opaque server: every read is answered  *)
(* by a reply chosen from a bounded set, or fails with a transport error.  *)
(*                                                                         *)
(* Encoding of Python/JSON values:                                         *)
(*   None / null          the empty tuple None == << >>                    *)
(*   a JSON object        a record                                         *)
(*   a nullable scalar    None or the one-element tuple <<v>>              *)
(*   Port.tagged          <<PyStr("all")>> or <<PyList(<<20, 30>>)>>       *)
(*   a dict               a function from its keys (strings) to values     *)
(***************************************************************************)
EXTENDS Integers, Sequences, FiniteSets, TLC

VARIABLES
    options,    \* argparse result: [device, vlans, ports, users]
    pc,         \* position of main()
    tried,      \* _get_device_id: number of names already looked up
    device_id,  \* main's device_id (None or <<id>>)
    context,    \* main's context dict
    traffic,    \* every inventory read issued so far, with its reply
    stdout,     \* what the process printed, in order
    exit,       \* None while running, else [code, uncaught exception]
    data,       \* get_ports: interface records not yet normalized
    ports,      \* get_ports: the ports dict built so far
    iface,      \* the record the last load_from_netbox call was given
    port        \* that call's outcome: [res: a Port or the error raised,
                \* reads: the inventory reads it issued]

vars == <<options, pc, tried, device_id, context, traffic, stdout, exit,
          data, ports, iface, port>>

---------------------------------------------------------------------------
(* Python values *)

None == << >>

Some(v) == <<v>>

PyStr(s) == [str |-> s]

PyList(l) == [list |-> l]

EmptyDict == [k \in {} |-> TRUE]

\* dict.update(d): the keys of d replace those of self
DictUpdate(self, d) == d @@ self

TruthyStr(x) == x # None /\ x[1] # ""

TruthyInt(x) == x # None /\ x[1] # 0

TruthyTagged(x) == x # None /\ x[1] # PyStr("") /\ x[1] # PyList(<< >>)

Ok(v) == [ok |-> TRUE, value |-> v]

Raise(e) == [ok |-> FALSE, error |-> e]

---------------------------------------------------------------------------
(* Netbox.get / Netbox.filter.  A read either fails (requests raises a     *)
(* transport/HTTP error) or is answered with a decoded JSON body.          *)

TransportError == [ok |-> FALSE]

Response(body) == [ok |-> TRUE, body |-> body]

IsError(reply) == ~reply.ok

\* id is None or <<id>>: str(arg) of main's device_id may be "None"
Get(path, id) == [op |-> "get", path |-> path, arg |-> [id |-> id]]

\* filter adds the limit to the criteria (one page, never a second)
Filter(path, args) ==
    [op |-> "filter", path |-> path, arg |-> ("limit" :> 1000) @@ args]

Read(req, reply) == [req |-> req, reply |-> reply]

---------------------------------------------------------------------------
(* int(str), as far as the names of the model need it: an optional sign    *)
(* followed by one or more decimal digits; anything else is a ValueError.  *)

Digits == <<"0", "1", "2", "3", "4", "5", "6", "7", "8", "9">>

IsDigit(c) == \E i \in 1..Len(Digits) : Digits[i] = c

DigitVal(c) == (CHOOSE i \in 1..Len(Digits) : Digits[i] = c) - 1

RECURSIVE DigitsVal(_)
DigitsVal(s) ==
    IF s = "" THEN 0
    ELSE DigitsVal(SubSeq(s, 1, Len(s) - 1)) * 10
         + DigitVal(SubSeq(s, Len(s), Len(s)))

PyInt(s) ==
    LET signed == s # "" /\ SubSeq(s, 1, 1) \in {"+", "-"}
        body   == IF signed THEN SubSeq(s, 2, Len(s)) ELSE s
        sign   == IF signed /\ SubSeq(s, 1, 1) = "-" THEN -1 ELSE 1
    IN  IF body = "" \/ \E i \in 1..Len(body) : ~IsDigit(SubSeq(body, i, i))
        THEN Raise("ValueError")
        ELSE Ok(sign * DigitsVal(body))

StartsWith(s, prefix) ==
    Len(s) >= Len(prefix) /\ SubSeq(s, 1, Len(prefix)) = prefix

---------------------------------------------------------------------------
(* class Port *)

\* Port.__init__
NewPort ==
    [shutdown |-> TRUE, clean |-> TRUE, type |-> None, descr |-> None,
     mtu |-> None, lag |-> None, lagmode |-> None, untagged |-> None,
     tagged |-> None]

\* to_dict without the early return of the clean branch
ToDict_NoEarlyReturn(self) ==
    (IF self.clean THEN ("clean" :> TRUE) ELSE EmptyDict)
    @@ ("shutdown" :> self.shutdown)
    @@ (IF TruthyStr(self.type) THEN ("type" :> self.type[1]) ELSE EmptyDict)
    @@ (IF TruthyStr(self.descr) THEN ("descr" :> self.descr[1])
        ELSE EmptyDict)

\* Port.to_dict
ToDict(self) ==
    IF self.clean THEN ("clean" :> TRUE)
    ELSE LET opt(key, value, truthy) ==
                 IF truthy THEN (key :> value[1]) ELSE EmptyDict
         IN  ("shutdown" :> self.shutdown)
             @@ opt("type", self.type, TruthyStr(self.type))
             @@ opt("descr", self.descr, TruthyStr(self.descr))
             @@ opt("mtu", self.mtu, TruthyInt(self.mtu))
             @@ opt("lag", self.lag, TruthyInt(self.lag))
             @@ opt("lagmode", self.lagmode, TruthyStr(self.lagmode))
             @@ opt("untagged", self.untagged, TruthyInt(self.untagged))
             @@ opt("tagged", self.tagged, TruthyTagged(self.tagged))

Vids(vlans) == [i \in 1..Len(vlans) |-> vlans[i].vid]

\* the mode mapping with a tagged-all branch that leaves tagged alone
LoadMode_TaggedAllKeepsTagged(self, o) ==
    IF o.mode = None THEN Ok(self)
    ELSE IF o.mode.value = "access"
         THEN Ok([self EXCEPT !.type = Some("access")])
    ELSE IF o.mode.value = "tagged"
         THEN Ok([self EXCEPT !.type = Some("trunk")])
    ELSE IF o.mode.value = "tagged-all"
         THEN Ok([self EXCEPT !.type = Some("trunk"),
                              !.untagged = Some(1)])
    ELSE Raise("AssertionError: Unknown mode")

\* Port.__load_mode_and_vlans: the mode mapping
LoadMode(self, o) ==
    IF o.mode = None THEN Ok(self)
    ELSE IF o.mode.value = "access"
         THEN Ok([self EXCEPT !.type = Some("access")])
    ELSE IF o.mode.value = "tagged"
         THEN Ok([self EXCEPT !.type = Some("trunk")])
    ELSE IF o.mode.value = "tagged-all"
         THEN Ok([self EXCEPT !.type = Some("trunk"),
                              !.untagged = Some(1),
                              !.tagged = Some(PyStr("all"))])
    ELSE Raise("AssertionError: Unknown mode")

\* Port.__load_mode_and_vlans: untagged and tagged vlans
LoadVlans(self, o) ==
    LET p1 == IF o.untagged_vlan # None
              THEN [self EXCEPT !.untagged = Some(o.untagged_vlan.vid)]
              ELSE self
    IN  IF o.tagged_vlans # << >>
        THEN [p1 EXCEPT !.tagged = Some(PyList(Vids(o.tagged_vlans)))]
        ELSE p1

\* Port.__load_mode_and_vlans
LoadModeAndVlans(self, o) ==
    LET m == LoadMode(self, o)
    IN  IF m.ok THEN Ok(LoadVlans(m.value, o)) ELSE m

\* set descr with the connected endpoint tried before the description
LoadDescr_EndpointFirst(self, o) ==
    IF o.connected_endpoint_type = Some("dcim.interface")
    THEN Ok([self EXCEPT !.descr =
                Some(o.connected_endpoint.device.name \o ":"
                     \o o.connected_endpoint.name)])
    ELSE IF o.connected_endpoint_type = Some("circuits.circuittermination")
    THEN Ok([self EXCEPT !.descr = Some(o.connected_endpoint.circuit.cid)])
    ELSE IF o.description # ""
    THEN Ok([self EXCEPT !.descr = Some(o.description)])
    ELSE Raise("AssertionError: Unknown connected_endpoint_type")

\* Port.load_from_netbox: set descr
LoadDescr(self, o) ==
    IF o.description # ""
    THEN Ok([self EXCEPT !.descr = Some(o.description)])
    ELSE IF o.connected_endpoint_type = Some("dcim.interface")
    THEN Ok([self EXCEPT !.descr =
                Some(o.connected_endpoint.device.name \o ":"
                     \o o.connected_endpoint.name)])
    ELSE IF o.connected_endpoint_type = Some("circuits.circuittermination")
    THEN Ok([self EXCEPT !.descr = Some(o.connected_endpoint.circuit.cid)])
    ELSE Raise("AssertionError: Unknown connected_endpoint_type")

\* Port.load_from_netbox: the parent's number, int(o['lag']['name'][12:])
LagNumber(name) ==
    IF StartsWith(name, "Port-channel")
    THEN PyInt(SubSeq(name, 13, Len(name)))
    ELSE Raise("AssertionError: Cannot parse link-aggregation number")

\* the read load_from_netbox issues for a LAG member
LagRequest(o) == Get("/dcim/interfaces/", Some(o.lag.id))

\* Port.load_from_netbox: set lag (reply is the inventory's answer to the
\* read of the parent, used only when that read is reached)
LoadLag(self, o, reply) ==
    IF o.lag = None THEN [res |-> Ok(self), reads |-> << >>]
    ELSE LET n == LagNumber(o.lag.name)
         IN  IF ~n.ok THEN [res |-> n, reads |-> << >>]
             ELSE LET p == [self EXCEPT !.lag = Some(n.value),
                                        !.lagmode = Some("active")]
                      rd == <<Read(LagRequest(o), reply)>>
                  IN  IF IsError(reply)
                      THEN [res |-> Raise("TransportError"), reads |-> rd]
                      ELSE [res |-> LoadModeAndVlans(p, reply.body),
                            reads |-> rd]

\* Port.load_from_netbox: set MTU
LoadMtu(self, o) ==
    IF TruthyInt(o.mtu) THEN [self EXCEPT !.mtu = o.mtu] ELSE self

\* Port.load_from_netbox: the relevance filter
IsClean(o) == o.connected_endpoint_type = None /\ o.type.value # "lag"

\* load_from_netbox with the own record applied before the parent's
LoadFromNetbox_OwnFirst(o, reply) ==
    IF IsClean(o)
    THEN [res |-> Ok([NewPort EXCEPT !.clean = TRUE]), reads |-> << >>]
    ELSE LET p0 == [NewPort EXCEPT !.clean = FALSE]
             d  == LoadDescr(p0, o)
         IN  IF ~d.ok THEN [res |-> d, reads |-> << >>]
             ELSE LET p1 == [d.value EXCEPT !.shutdown = (o.enabled = FALSE)]
                      m  == LoadModeAndVlans(p1, o)
                  IN  IF ~m.ok THEN [res |-> m, reads |-> << >>]
                      ELSE LET l == LoadLag(m.value, o, reply)
                           IN  IF ~l.res.ok THEN l
                               ELSE [res |-> Ok(LoadMtu(l.res.value, o)),
                                     reads |-> l.reads]

\* Port.load_from_netbox
LoadFromNetbox(o, reply) ==
    IF IsClean(o)
    THEN [res |-> Ok([NewPort EXCEPT !.clean = TRUE]), reads |-> << >>]
    ELSE LET p0 == [NewPort EXCEPT !.clean = FALSE]
             d  == LoadDescr(p0, o)
         IN  IF ~d.ok THEN [res |-> d, reads |-> << >>]
             ELSE LET p1 == [d.value EXCEPT !.shutdown = (o.enabled = FALSE)]
                      l  == LoadLag(p1, o, reply)
                  IN  IF ~l.res.ok THEN l
                      ELSE LET m == LoadModeAndVlans(l.res.value, o)
                           IN  IF ~m.ok THEN [res |-> m, reads |-> l.reads]
                               ELSE [res |-> Ok(LoadMtu(m.value, o)),
                                     reads |-> l.reads]

---------------------------------------------------------------------------
(* The inventory: what a read may be answered with *)

MaxResults == 2

MaxIfaces == 2

MaxVlans == 1

Devices == {[id |-> 1, name |-> "sw1"], [id |-> 2, name |-> "sw1.example.net"]}

RECURSIVE SeqsUpTo(_, _)
SeqsUpTo(S, n) ==
    IF n = 0 THEN {<< >>}
    ELSE LET shorter == SeqsUpTo(S, n - 1)
         IN  shorter \cup {Append(q, x) : q \in shorter, x \in S}

\* GET /dcim/devices/?name=..: a results array, or a transport error
DeviceReplies ==
    {TransportError} \cup {Response(r) : r \in SeqsUpTo(Devices, MaxResults)}

\* GET /dcim/devices/<id>
DeviceInfoReplies == {TransportError} \cup {Response(d) : d \in Devices}

Vlans == {[vid |-> 10, name |-> "users"], [vid |-> 20, name |-> "voice"]}

\* GET /ipam/vlans/
VlanReplies ==
    {TransportError} \cup {Response(r) : r \in SeqsUpTo(Vlans, MaxVlans)}

Modes == {None, [value |-> "access"], [value |-> "tagged"],
          [value |-> "tagged-all"], [value |-> "q-in-q"]}

UntaggedVlans == {None, [vid |-> 10]}

TaggedVlans == {<< >>, <<[vid |-> 20], [vid |-> 30]>>}

LagNames == {"Port-channel0", "Port-channel7", "Port-channel12",
             "Port-channel-5", "Port-channel", "Po1"}

Lags == {None} \cup {[id |-> 77, name |-> n] : n \in LagNames}

EndpointTypes == {None, Some("dcim.interface"),
                  Some("circuits.circuittermination"), Some("dcim.frontport")}

\* the connected_endpoint the inventory serves with a connected_endpoint_type
EndpointOf(t) ==
    IF t = Some("dcim.interface")
    THEN [device |-> [name |-> "sw2"], name |-> "Eth9"]
    ELSE IF t = Some("circuits.circuittermination")
    THEN [circuit |-> [cid |-> "CID-1"]]
    ELSE IF t = None THEN None
    ELSE [name |-> "FP1"]

\* interface records (the fields load_from_netbox reads)
IfaceRecords ==
    {[name |-> "Eth1", connected_endpoint_type |-> t,
      connected_endpoint |-> EndpointOf(t), type |-> [value |-> ty],
      description |-> d, enabled |-> e, mtu |-> mtu, lag |-> l, mode |-> m,
      untagged_vlan |-> u, tagged_vlans |-> tv] :
        t \in EndpointTypes, ty \in {"lag", "1000base-t"},
        d \in {"", "uplink"}, e \in BOOLEAN, mtu \in {None, Some(9000)},
        l \in Lags, m \in Modes, u \in UntaggedVlans, tv \in TaggedVlans}

\* GET /dcim/interfaces/<id>: the parent LAG's record (the fields
\* __load_mode_and_vlans reads).  Parent 77 may hold any switchport
\* configuration; parent 78 is a tagged-all trunk.
LagReplies(id) ==
    IF id = 77
    THEN {TransportError} \cup
         {Response([mode |-> m, untagged_vlan |-> u, tagged_vlans |-> tv]) :
             m \in Modes, u \in {None, [vid |-> 40]},
             tv \in {<< >>, <<[vid |-> 50]>>}}
    ELSE {TransportError,
          Response([mode |-> [value |-> "tagged-all"], untagged_vlan |-> None,
                    tagged_vlans |-> << >>])}

\* the replies a load_from_netbox call on o may meet
ParentReplies(o) ==
    IF o.lag = None THEN {TransportError} ELSE LagReplies(o.lag.id)

\* the records a whole run is explored with: an unconnected port, a member
\* of Port-channel7 and a port in a mode load_from_netbox rejects
SampleIfaces ==
    LET base == [name |-> "Eth1", connected_endpoint_type |-> None,
                 connected_endpoint |-> None,
                 type |-> [value |-> "1000base-t"], description |-> "",
                 enabled |-> TRUE, mtu |-> None, lag |-> None, mode |-> None,
                 untagged_vlan |-> None, tagged_vlans |-> << >>]
        conn == [base EXCEPT
                    !.connected_endpoint_type = Some("dcim.interface"),
                    !.connected_endpoint =
                        EndpointOf(Some("dcim.interface"))]
    IN  {base,
         [conn EXCEPT !.lag = [id |-> 78, name |-> "Port-channel7"]],
         [conn EXCEPT !.mode = [value |-> "q-in-q"]]}

Rename(o, n) == [o EXCEPT !.name = n]

\* GET /dcim/interfaces/?device_id=..
IfaceReplies ==
    {TransportError} \cup
    {Response([i \in 1..Len(q) |->
                  Rename(q[i], IF i = 1 THEN "Eth1" ELSE "Eth2")]) :
        q \in SeqsUpTo(SampleIfaces, MaxIfaces)}

---------------------------------------------------------------------------
(* device resolution *)

search_domain == "example.net"

\* _get_device_id: names
Names(device_name) == <<device_name, device_name \o "." \o search_domain>>

\* __try_get_device taking the last result instead of the first
TryGetDevice_LastResult(reply) ==
    IF IsError(reply) THEN None
    ELSE IF reply.body = << >> THEN None
    ELSE Some(reply.body[Len(reply.body)].id)

\* __try_get_device: any exception (an empty results array, a failed read)
\* is swallowed by the bare except
TryGetDevice(reply) ==
    IF IsError(reply) THEN None
    ELSE IF reply.body = << >> THEN None
    ELSE Some(reply.body[1].id)

JoinNames(names) == names[1] \o ", " \o names[2]

NotFoundMessage(device_name) ==
    "Device not found. Tried: " \o JoinNames(Names(device_name))

---------------------------------------------------------------------------
(* main() *)

Truthy(opt) == opt # None /\ opt[1] # ""

Exit(code, exc) == [code |-> code, uncaught |-> exc]

\* an exception nothing catches ends the process (status 1, a traceback)
Crash(exc) ==
    /\ exit' = Exit(1, exc)
    /\ pc' = "done"

Init ==
    /\ options \in [device : {None, Some("sw1")}, vlans : BOOLEAN,
                    ports : BOOLEAN, users : BOOLEAN]
    /\ pc = "device"
    /\ tried = 0
    /\ device_id = None
    /\ context = EmptyDict
    /\ traffic = << >>
    /\ stdout = << >>
    /\ exit = None
    /\ data = << >>
    /\ ports = EmptyDict
    /\ iface = None
    /\ port = None

\* main: "if options.device" is false
NoDevice ==
    /\ pc = "device"
    /\ ~Truthy(options.device)
    /\ pc' = "vlans"
    /\ UNCHANGED <<options, tried, device_id, context, traffic, stdout, exit,
                   data, ports, iface, port>>

\* _get_device_id: one turn of the loop over names
GetDeviceId ==
    /\ pc = "device"
    /\ Truthy(options.device)
    /\ tried < Len(Names(options.device[1]))
    /\ \E reply \in DeviceReplies :
        LET name == Names(options.device[1])[tried + 1]
            r    == TryGetDevice(reply)
        IN  /\ traffic' = Append(traffic,
                   Read(Filter("/dcim/devices/", "name" :> name), reply))
            /\ tried' = tried + 1
            /\ IF TruthyInt(r)
               THEN device_id' = r /\ pc' = "device_info"
               ELSE UNCHANGED <<device_id, pc>>
    /\ UNCHANGED <<options, context, stdout, exit, data, ports, iface, port>>

\* main printing the error without sys.exit(1)
DeviceNotFound_FallsThrough ==
    /\ pc = "device"
    /\ Truthy(options.device)
    /\ tried = Len(Names(options.device[1]))
    /\ stdout' = Append(stdout, [text |-> NotFoundMessage(options.device[1])])
    /\ pc' = "device_info"
    /\ UNCHANGED <<options, tried, device_id, context, traffic, exit, data,
                   ports, iface, port>>

\* _get_device_id raises once every name was tried; main prints and exits
DeviceNotFound ==
    /\ pc = "device"
    /\ Truthy(options.device)
    /\ tried = Len(Names(options.device[1]))
    /\ stdout' = Append(stdout, [text |-> NotFoundMessage(options.device[1])])
    /\ exit' = Exit(1, "")
    /\ pc' = "done"
    /\ UNCHANGED <<options, tried, device_id, context, traffic, data, ports,
                   iface, port>>

\* get_device_info and context.update(device)
GetDeviceInfo ==
    /\ pc = "device_info"
    /\ \E reply \in DeviceInfoReplies :
        /\ traffic' = Append(traffic,
               Read(Get("/dcim/devices/", device_id), reply))
        /\ IF IsError(reply)
           THEN Crash("TransportError") /\ UNCHANGED context
           ELSE /\ context' = DictUpdate(context, "hostname" :> reply.body.name)
                /\ pc' = "vlans"
                /\ UNCHANGED exit
    /\ UNCHANGED <<options, tried, device_id, stdout, data, ports, iface, port>>

VlanMap(results) ==
    [v \in {results[i].vid : i \in 1..Len(results)} |->
        LET last == CHOOSE i \in 1..Len(results) :
                        /\ results[i].vid = v
                        /\ \A j \in (i + 1)..Len(results) : results[j].vid # v
        IN  [name |-> results[last].name]]

\* main leaving a null vlans section when --vlans is not given
GetVlans_Placeholder ==
    /\ pc = "vlans"
    /\ IF options.vlans
       THEN \E reply \in VlanReplies :
              /\ traffic' = Append(traffic,
                     Read(Filter("/ipam/vlans/", EmptyDict), reply))
              /\ IF IsError(reply)
                 THEN Crash("TransportError") /\ UNCHANGED context
                 ELSE /\ context' = DictUpdate(context,
                                        "vlans" :> VlanMap(reply.body))
                      /\ pc' = "ports"
                      /\ UNCHANGED exit
       ELSE /\ context' = DictUpdate(context, "vlans" :> None)
            /\ pc' = "ports"
            /\ UNCHANGED <<traffic, exit>>
    /\ UNCHANGED <<options, tried, device_id, stdout, data, ports, iface, port>>

\* get_vlans and context.update(vlans), when --vlans is given
GetVlans ==
    /\ pc = "vlans"
    /\ IF options.vlans
       THEN \E reply \in VlanReplies :
              /\ traffic' = Append(traffic,
                     Read(Filter("/ipam/vlans/", EmptyDict), reply))
              /\ IF IsError(reply)
                 THEN Crash("TransportError") /\ UNCHANGED context
                 ELSE /\ context' = DictUpdate(context,
                                        "vlans" :> VlanMap(reply.body))
                      /\ pc' = "ports"
                      /\ UNCHANGED exit
       ELSE pc' = "ports" /\ UNCHANGED <<traffic, context, exit>>
    /\ UNCHANGED <<options, tried, device_id, stdout, data, ports, iface, port>>

\* get_ports: the read of the device's interfaces, when --ports is given
GetPorts ==
    /\ pc = "ports"
    /\ IF options.ports
       THEN \E reply \in IfaceReplies :
              /\ traffic' = Append(traffic,
                     Read(Filter("/dcim/interfaces/",
                                 "device_id" :> device_id), reply))
              /\ IF IsError(reply)
                 THEN Crash("TransportError") /\ UNCHANGED <<data, ports>>
                 ELSE /\ data' = reply.body
                      /\ ports' = EmptyDict
                      /\ pc' = "ports_loop"
                      /\ UNCHANGED exit
       ELSE pc' = "users" /\ UNCHANGED <<traffic, data, ports, exit>>
    /\ UNCHANGED <<options, tried, device_id, context, stdout, iface, port>>

\* get_ports: one turn of the loop,
\* ports[name] = Port.load_from_netbox(netbox, iface).to_dict()
LoadPort ==
    /\ pc = "ports_loop"
    /\ data # << >>
    /\ \E reply \in ParentReplies(Head(data)) :
        LET o == Head(data)
            r == LoadFromNetbox(o, reply)
        IN  /\ iface' = o
            /\ port' = r
            /\ traffic' = traffic \o r.reads
            /\ IF r.res.ok
               THEN /\ ports' = (o.name :> ToDict(r.res.value)) @@ ports
                    /\ data' = Tail(data)
                    /\ UNCHANGED <<pc, exit>>
               ELSE Crash(r.res.error) /\ UNCHANGED <<ports, data>>
    /\ UNCHANGED <<options, tried, device_id, context, stdout>>

\* get_ports returns and context.update(ports)
GetPortsReturn ==
    /\ pc = "ports_loop"
    /\ data = << >>
    /\ context' = DictUpdate(context, "ports" :> ports)
    /\ pc' = "users"
    /\ UNCHANGED <<options, tried, device_id, traffic, stdout, exit, data,
                   ports, iface, port>>

\* get_users: NotImplemented is not callable, so the raise is a TypeError
GetUsers ==
    /\ pc = "users"
    /\ IF options.users
       THEN Crash("TypeError")
       ELSE pc' = "emit" /\ UNCHANGED exit
    /\ UNCHANGED <<options, tried, device_id, context, traffic, stdout, data,
                   ports, iface, port>>

\* yamlp(context), the last statement of main
Emit ==
    /\ pc = "emit"
    /\ stdout' = Append(stdout, [yaml |-> context])
    /\ exit' = Exit(0, "")
    /\ pc' = "done"
    /\ UNCHANGED <<options, tried, device_id, context, traffic, data, ports,
                   iface, port>>

Next ==
    \/ NoDevice
    \/ GetDeviceId
    \/ DeviceNotFound
    \/ GetDeviceInfo
    \/ GetVlans
    \/ GetPorts
    \/ LoadPort
    \/ GetPortsReturn
    \/ GetUsers
    \/ Emit

Spec == Init /\ [][Next]_vars

---------------------------------------------------------------------------
(* Port normalization on its own: a run with --device sw1 --ports, at the  *)
(* point where get_ports has read the device's interfaces and the          *)
(* inventory returned one record, any of IfaceRecords.                     *)

InitPort ==
    /\ options = [device |-> Some("sw1"), vlans |-> FALSE, ports |-> TRUE,
                  users |-> FALSE]
    /\ pc = "ports_loop"
    /\ tried = 1
    /\ device_id = Some(1)
    /\ context = ("hostname" :> "sw1")
    /\ \E o \in IfaceRecords :
        /\ data = <<o>>
        /\ traffic =
            <<Read(Filter("/dcim/devices/", "name" :> "sw1"),
                   Response(<<[id |-> 1, name |-> "sw1"]>>)),
              Read(Get("/dcim/devices/", Some(1)),
                   Response([id |-> 1, name |-> "sw1"])),
              Read(Filter("/dcim/interfaces/", "device_id" :> Some(1)),
                   Response(<<o>>))>>
    /\ stdout = << >>
    /\ exit = None
    /\ ports = EmptyDict
    /\ iface = None
    /\ port = None

NextPort ==
    \/ LoadPort
    \/ GetPortsReturn
    \/ GetUsers
    \/ Emit

SpecPort == InitPort /\ [][NextPort]_vars

---------------------------------------------------------------------------
(* What the properties below read off a state *)

\* a load_from_netbox call has returned or raised
Loaded == iface # None

\* the call returned a Port, and get_ports stored its to_dict()
Normalized == Loaded /\ port.res.ok

\* the to_dict() output stored for the last normalized interface
Out == ports[iface.name]

\* a key of a dict as an optional value
Field(d, k) == IF k \in DOMAIN d THEN Some(d[k]) ELSE None

NonClean(o) == o.connected_endpoint_type # None \/ o.type.value = "lag"

\* the parent LAG's record, once the call has read it
ParentRead == Loaded /\ port.reads # << >> /\ port.reads[1].reply.ok

Parent == port.reads[1].reply.body

IsTaggedAll(m) == m # None /\ m.value = "tagged-all"

\* what mode/VLAN derivation yields from one record alone (spec 4.2 step 5)
DerivedType(r) ==
    IF r.mode = None THEN None
    ELSE IF r.mode.value = "access" THEN Some("access")
    ELSE Some("trunk")

DerivedUntagged(r) ==
    IF r.untagged_vlan # None THEN Some(r.untagged_vlan.vid)
    ELSE IF IsTaggedAll(r.mode) THEN Some(1)
    ELSE None

DerivedTagged(r) ==
    IF r.tagged_vlans # << >>
    THEN Some(PyList([i \in 1..Len(r.tagged_vlans) |-> r.tagged_vlans[i].vid]))
    ELSE IF IsTaggedAll(r.mode) THEN Some(PyStr("all"))
    ELSE None

\* own value when the own record yields one, else the parent's
OwnElse(own, parent) == IF own # None THEN own ELSE parent

---------------------------------------------------------------------------
(* C1 *)

\* C1: an interface with a null connected_endpoint_type and a type other
\* than "lag" normalizes to exactly {clean: true}, whatever its other fields
\* hold, and load_from_netbox issues no inventory read for it.
C1_CleanIsOnlyClean ==
    (Loaded /\ iface.connected_endpoint_type = None
            /\ iface.type.value # "lag")
        => /\ port.res.ok
           /\ port.reads = << >>
           /\ Out = ("clean" :> TRUE)

C1_Witness ==
    /\ Loaded
    /\ iface.connected_endpoint_type = None
    /\ iface.type.value # "lag"
    /\ iface.description = "uplink"
    /\ ~iface.enabled
    /\ iface.mtu = Some(9000)
    /\ iface.lag # None
    /\ IsTaggedAll(iface.mode)
    /\ iface.untagged_vlan # None
    /\ iface.tagged_vlans # << >>
    /\ DOMAIN ports = {iface.name}

---------------------------------------------------------------------------
(* C8 *)

\* C8: for a non-clean interface the description comes, in this order, from
\* the interface's own non-empty description (and then no endpoint type,
\* recognized or not, makes the step fail), else from a connected device
\* interface as "<device>:<interface>", else from a connected circuit
\* termination as the circuit id; any other endpoint fails the call with the
\* unknown-endpoint error and no Port is produced.
C8_DescrPriority ==
    (Loaded /\ NonClean(iface)) =>
        LET unknown ==
                ~port.res.ok /\ port.res.error =
                    "AssertionError: Unknown connected_endpoint_type"
            descrIs(v) ==
                /\ ~unknown
                /\ port.res.ok => /\ port.res.value.descr = Some(v)
                                  /\ Field(Out, "descr") = Some(v)
        IN  IF iface.description # "" THEN descrIs(iface.description)
            ELSE IF iface.connected_endpoint_type = Some("dcim.interface")
            THEN descrIs(iface.connected_endpoint.device.name \o ":"
                         \o iface.connected_endpoint.name)
            ELSE IF iface.connected_endpoint_type
                        = Some("circuits.circuittermination")
            THEN descrIs(iface.connected_endpoint.circuit.cid)
            ELSE unknown /\ iface.name \notin DOMAIN ports

C8_Witness ==
    /\ Normalized
    /\ iface.description = "uplink"
    /\ iface.connected_endpoint_type = Some("dcim.frontport")
    /\ Field(Out, "descr") = Some("uplink")

---------------------------------------------------------------------------
(* C10 *)

\* C10: for a LAG member, type, untagged and tagged of the output are each
\* the value mode/VLAN derivation yields from the interface's own record
\* when it yields one, and otherwise the value it yields from the parent
\* LAG's record read from the inventory (the parent is applied first, the
\* own record second).
C10_OwnOverParent ==
    (Normalized /\ iface.lag # None /\ NonClean(iface)) =>
        /\ ParentRead
        /\ Field(Out, "type")
             = OwnElse(DerivedType(iface), DerivedType(Parent))
        /\ Field(Out, "untagged")
             = OwnElse(DerivedUntagged(iface), DerivedUntagged(Parent))
        /\ Field(Out, "tagged")
             = OwnElse(DerivedTagged(iface), DerivedTagged(Parent))

C10_Witness ==
    /\ Normalized
    /\ iface.lag # None
    /\ NonClean(iface)
    /\ iface.mode = None
    /\ iface.untagged_vlan # None
    /\ iface.tagged_vlans = << >>
    /\ IsTaggedAll(Parent.mode)
    /\ Parent.untagged_vlan # None
    /\ Field(Out, "untagged") = Some(iface.untagged_vlan.vid)
    /\ Field(Out, "tagged") = Some(PyStr("all"))

---------------------------------------------------------------------------
(* C2 *)

AllDigits(s) == s # "" /\ \A i \in 1..Len(s) : IsDigit(SubSeq(s, i, i))

\* C2 (as claimed): a LAG member without mode and VLAN references of its
\* own, whose parent is named Port-channel<N> for a non-negative integer N,
\* has lag = N and lagmode = "active" in its output, and type, untagged and
\* tagged as derived from the parent's record; with any other parent name
\* the call fails (with a parse error once the description step has
\* passed) and no output is stored.
C2_Claim ==
    (Loaded /\ NonClean(iface) /\ iface.lag # None /\ iface.mode = None
            /\ iface.untagged_vlan = None /\ iface.tagged_vlans = << >>) =>
        LET suffix == SubSeq(iface.lag.name, 13, Len(iface.lag.name))
        IN  IF StartsWith(iface.lag.name, "Port-channel") /\ AllDigits(suffix)
            THEN Normalized =>
                    /\ Field(Out, "lag") = Some(DigitsVal(suffix))
                    /\ Field(Out, "lagmode") = Some("active")
                    /\ ParentRead
                    /\ Field(Out, "type") = DerivedType(Parent)
                    /\ Field(Out, "untagged") = DerivedUntagged(Parent)
                    /\ Field(Out, "tagged") = DerivedTagged(Parent)
            ELSE /\ ~port.res.ok
                 /\ iface.name \notin DOMAIN ports
                 /\ port.res.error \in
                        {"AssertionError: Unknown connected_endpoint_type",
                         "AssertionError: Cannot parse link-aggregation number",
                         "ValueError"}

---------------------------------------------------------------------------
(* C3 *)

\* C3 (as claimed): when the governing record (the parent LAG for a member,
\* else the interface itself) has mode "tagged-all", the output has
\* type = "trunk", tagged = "all" and untagged = 1, or the id of that
\* record's untagged VLAN when it carries one.
C3_Claim ==
    (Normalized /\ NonClean(iface)) =>
        LET gov == IF iface.lag # None THEN Parent ELSE iface
        IN  IsTaggedAll(gov.mode) =>
              /\ Field(Out, "type") = Some("trunk")
              /\ Field(Out, "tagged") = Some(PyStr("all"))
              /\ Field(Out, "untagged") =
                    IF gov.untagged_vlan # None
                    THEN Some(gov.untagged_vlan.vid) ELSE Some(1)

\* C3 (amended): when the effective mode (the interface's own mode if it has
\* one, else its LAG parent's) is "tagged-all", the output has
\* type = "trunk"; untagged is the id of the interface's own untagged VLAN,
\* else of the parent's when the mode came from the parent, else 1; tagged
\* is the list of ids of the interface's own tagged VLANs, else of the
\* parent's when the mode came from the parent, else "all".
C3_TaggedAll ==
    (Normalized /\ NonClean(iface)) =>
        LET fromParent == iface.mode = None /\ iface.lag # None
            mode == IF fromParent THEN Parent.mode ELSE iface.mode
            inherited == IF fromParent THEN Parent
                         ELSE [untagged_vlan |-> None, tagged_vlans |-> << >>]
        IN  IsTaggedAll(mode) =>
              /\ Field(Out, "type") = Some("trunk")
              /\ Field(Out, "untagged") =
                    IF iface.untagged_vlan # None
                    THEN Some(iface.untagged_vlan.vid)
                    ELSE IF inherited.untagged_vlan # None
                    THEN Some(inherited.untagged_vlan.vid)
                    ELSE Some(1)
              /\ Field(Out, "tagged") =
                    IF iface.tagged_vlans # << >>
                    THEN Some(PyList(Vids(iface.tagged_vlans)))
                    ELSE IF inherited.tagged_vlans # << >>
                    THEN Some(PyList(Vids(inherited.tagged_vlans)))
                    ELSE Some(PyStr("all"))

C3_Witness ==
    /\ Normalized
    /\ NonClean(iface)
    /\ iface.lag = None
    /\ IsTaggedAll(iface.mode)
    /\ iface.untagged_vlan # None
    /\ iface.tagged_vlans # << >>
    /\ Field(Out, "type") = Some("trunk")
    /\ Field(Out, "untagged") = Some(10)
    /\ Field(Out, "tagged") = Some(PyList(<<20, 30>>))

---------------------------------------------------------------------------
(* C4 *)

\* C4 (as claimed): an interface of type "lag" with no connected endpoint,
\* no mode and no VLAN references (and neither MTU nor LAG parent)
\* normalizes successfully to a non-clean Port whose output has shutdown as
\* its only key, also when its description is empty.
C4_Claim ==
    (Loaded /\ iface.connected_endpoint_type = None
            /\ iface.type.value = "lag" /\ iface.mode = None
            /\ iface.untagged_vlan = None /\ iface.tagged_vlans = << >>
            /\ iface.mtu = None /\ iface.lag = None) =>
        /\ port.res.ok
        /\ ~port.res.value.clean
        /\ DOMAIN Out = {"shutdown"}

---------------------------------------------------------------------------
(* C5, C6, C7: device resolution *)

IsLookup(t) == t.req.op = "filter" /\ t.req.path = "/dcim/devices/"

Lookups == SelectSeq(traffic, IsLookup)

\* the inventory answered the lookup and returned at least one device
Found(t) == t.reply.ok /\ t.reply.body # << >>

IsText(line) == "text" \in DOMAIN line

IsYaml(line) == "yaml" \in DOMAIN line

ReadFailed == \E i \in 1..Len(traffic) : IsError(traffic[i].reply)

\* C5 (as claimed): a run in which a read failed with a transport error,
\* in whatever phase, has ended with that error uncaught; and the clean exit
\* with code 1 happens only when the inventory answered both lookups and
\* neither returned a device.
C5_Claim ==
    /\ (pc = "done" /\ ReadFailed) => exit = Exit(1, "TransportError")
    /\ (exit # None /\ exit = Exit(1, "")) =>
          \A k \in 1..Len(Lookups) :
              Lookups[k].reply.ok /\ Lookups[k].reply.body = << >>

\* C6: the lookups of a resolution are issued for X, then X.<search_domain>,
\* at most two; the first lookup that finds a device is the last lookup,
\* and its first result's id is the device id; when neither of two lookups
\* finds a device the run fails with the device-not-found message naming
\* both.
C6_ResolutionOrder ==
    LET L == Lookups
    IN  /\ Len(L) <= 2
        /\ L # << >> => Truthy(options.device)
        /\ \A k \in 1..Len(L) :
              /\ L[k].req.arg["name"] = Names(options.device[1])[k]
              /\ Found(L[k]) =>
                    /\ k = Len(L)
                    /\ device_id = Some(L[k].reply.body[1].id)
        /\ device_id # None => (L # << >> /\ Found(L[Len(L)]))
        /\ (Len(L) = 2 /\ ~Found(L[2]) /\ pc # "device") =>
              /\ stdout = <<[text |-> "Device not found. Tried: "
                                \o Names(options.device[1])[1] \o ", "
                                \o Names(options.device[1])[2]]>>
              /\ device_id = None
        /\ (\E i \in 1..Len(stdout) : IsText(stdout[i])) =>
              (Len(L) = 2 /\ ~Found(L[1]) /\ ~Found(L[2]))

C6_Witness ==
    /\ Len(Lookups) = 2
    /\ Lookups[1].reply = Response(<< >>)
    /\ Lookups[2].reply.ok
    /\ Len(Lookups[2].reply.body) = 2
    /\ Lookups[2].reply.body[1].id = 2
    /\ Lookups[2].reply.body[2].id = 1
    /\ device_id = Some(2)
    /\ pc = "done"

\* C7: once --device was given and neither lookup resolved it, the process
\* has printed "Device not found. Tried: X, X.<domain>" and nothing else,
\* exited with code 1, and the two lookups are the only reads it ever
\* issued, whatever the other flags.
C7_NotFoundExits ==
    (Truthy(options.device) /\ pc # "device" /\ device_id = None) =>
        /\ pc = "done"
        /\ exit = Exit(1, "")
        /\ stdout = <<[text |-> "Device not found. Tried: "
                          \o options.device[1] \o ", " \o options.device[1]
                          \o "." \o search_domain]>>
        /\ Len(traffic) = 2
        /\ \A i \in 1..Len(traffic) : IsLookup(traffic[i])

C7_Witness ==
    /\ Truthy(options.device)
    /\ pc = "done"
    /\ device_id = None
    /\ options.vlans /\ options.ports /\ options.users
    /\ exit = Exit(1, "")

---------------------------------------------------------------------------
(* C9 *)

Docs == SelectSeq(stdout, IsYaml)

Requested ==
    (IF Truthy(options.device) THEN {"hostname"} ELSE {})
    \cup (IF options.vlans THEN {"vlans"} ELSE {})
    \cup (IF options.ports THEN {"ports"} ELSE {})

\* C9: a run that ends without error (which excludes --users) has emitted
\* exactly one document, as the last thing it did, whose keys are exactly
\* hostname, vlans, ports as --device, --vlans, --ports were given; a
\* document is emitted in no other run, and with --users none ever is and
\* the run ends in an error.
C9_DocumentKeys ==
    /\ Len(Docs) <= 1
    /\ Docs # << >> => (pc = "done" /\ exit = Exit(0, ""))
    /\ (pc = "done" /\ exit.code = 0) =>
          /\ ~options.users
          /\ Len(Docs) = 1
          /\ IsYaml(stdout[Len(stdout)])
          /\ DOMAIN Docs[1].yaml = Requested
    /\ options.users =>
          /\ Docs = << >>
          /\ pc = "done" => exit.code # 0

C9_Witness ==
    /\ pc = "done"
    /\ exit = Exit(0, "")
    /\ Truthy(options.device) /\ ~options.vlans /\ options.ports
    /\ DOMAIN Docs[1].yaml = {"hostname", "ports"}
    /\ DOMAIN Docs[1].yaml["ports"] = {"Eth1", "Eth2"}

=============================================================================
